---- MODULE Spec2Model ----
(***************************************************************************)
(* Model of the hybrid tag-reconciliation pipeline of farterrogator:       *)
(* src/services/geminiService.ts (first revision in the file, lines        *)
(* 1-1115) and the tag vocabulary service (src/components/Header.tsx,      *)
(* lines 779-857).                                                         *)
(*                                                                         *)
(* Strings are sequences of tokens.  A token is a one-character string     *)
(* (" ", "_", "(", ")", ",") or an atomic word of letters ("cat").         *)
(* Scores are integers in hundredths (0.7 is 70, 0.85 is 85).              *)
(***************************************************************************)
EXTENDS Integers, Sequences, FiniteSets, TLC

VARIABLES
    config,         \* BackendConfig of the interrogation
    pc,             \* position of generateTags / generateTagsLocalHybrid
    tagDatabase,    \* tagService: name -> category
    isLoaded,       \* tagService: the table has been loaded
    csvInFlight,    \* callers of loadTagDatabase awaiting fetch('/selected_tags.csv')
    localTags,      \* generateTagsLocalHybrid: let localTags
    enrichLocals,   \* enrichTagsWithCopyrights: newTags, existingNames, queue
    enrichRet,      \* the last return value of enrichTagsWithCopyrights
    ollamaData,     \* generateTagsLocalHybrid: let ollamaData
    result,         \* the InterrogationResult handed to the caller
    outcome,        \* "pending", "returned" or "raised" (promise of generateTags)
    progress,       \* percentages passed to onProgress, in order
    requests,       \* backend requests issued, in order
    inFlight,       \* backend requests awaiting their response
    stage,          \* per stage: "pending", "running", "settled", "skipped"
    failed,         \* per backend call: whether it failed
    mergeCall,      \* arguments of one call of mergeTags: [localTags, ollamaTags]
    mergeRet,       \* its return value
    mergeDone,      \* whether the call has returned
    appState,       \* App: AppState
    selectedFile,   \* App: the File selected, NoFile for null
    interrogated,   \* handleInterrogate: the selectedFile its closure holds
    appResult,      \* App: result state; its tags array lives in arrays.result
    appError,       \* App: error state (a message is set)
    settings,       \* App: TaggingSettings
    arrays,         \* the array objects of the UI, by reference
    shown,          \* Results: the array processedTags returned
    cloudFailure,   \* what went wrong in the cloud call of this interrogation
    fnCall,         \* arguments of one call of a function checked on its own
    fnRet,          \* its return value
    fnDone          \* whether the call has returned

dbVars == <<tagDatabase, isLoaded, csvInFlight>>

pipeVars ==
    <<config, pc, localTags, enrichLocals, enrichRet, ollamaData, result,
      outcome, progress, requests, inFlight, stage, failed>>

mergeVars == <<mergeCall, mergeRet, mergeDone>>

appVars ==
    <<appState, selectedFile, interrogated, appResult, appError, settings, arrays,
      shown, cloudFailure>>

fnVars == <<fnCall, fnRet, fnDone>>

vars == <<dbVars, pipeVars, mergeVars, appVars, fnVars>>

----------------------------------------------------------------------------
(* String helpers: String.prototype.toLowerCase / trim / replace(/ /g,'_') *)

ToLowerToken(c) ==
    CASE c = "A" -> "a"
      [] c = "B" -> "b"
      [] c = "Fate" -> "fate"
      [] c = "Tags:" -> "tags:"
      [] c = "Summary:" -> "summary:"
      [] OTHER -> c

toLowerCase(s) == [i \in 1..Len(s) |-> ToLowerToken(s[i])]

\* whitespace as matched by \s and removed by trim(): space and newline
IsSpace(c) == c \in {" ", "\n"}

RECURSIVE trimStart(_)
trimStart(s) ==
    IF s # <<>> /\ IsSpace(Head(s)) THEN trimStart(Tail(s)) ELSE s

RECURSIVE trimEnd(_)
trimEnd(s) ==
    IF s # <<>> /\ IsSpace(s[Len(s)]) THEN trimEnd(SubSeq(s, 1, Len(s) - 1)) ELSE s

trim(s) == trimEnd(trimStart(s))

replaceSpaces(s) == [i \in 1..Len(s) |-> IF s[i] = " " THEN "_" ELSE s[i]]

normalizeTag(tag) == replaceSpaces(trim(toLowerCase(tag)))

----------------------------------------------------------------------------
(* Tags.  source "none" is the absent (undefined) optional field.          *)
(* The loops of the code are folds over the list; each fold binds the      *)
(* accumulator and the rest of the list through one-element sets, so that  *)
(* every iteration is evaluated once, as the loop runs it.                 *)

Tag(n, s, c, src) == [name |-> n, score |-> s, category |-> c, source |-> src]

\* the score NaN (Number(undefined)): every comparison with it is false
NaN == -1000000

\* Math.max(a, b)
Max(a, b) == IF a = NaN \/ b = NaN THEN NaN ELSE IF a >= b THEN a ELSE b

\* Array.prototype.sort((a, b) => b.score - a.score): stable, descending;
\* a comparator value of NaN counts as 0 (the two stay in their order)
RECURSIVE InsertByScore(_, _)
InsertByScore(sorted, t) ==
    IF sorted = <<>> THEN <<t>>
    ELSE IF Head(sorted).score = NaN \/ t.score = NaN \/ Head(sorted).score >= t.score
         THEN <<Head(sorted)>> \o InsertByScore(Tail(sorted), t)
         ELSE <<t>> \o sorted

RECURSIVE SortFrom(_, _)
SortFrom(acc, s) ==
    IF s = <<>> THEN acc
    ELSE CHOOSE r \in { SortFrom(a, rest) :
                          a \in { InsertByScore(acc, Head(s)) },
                          rest \in { Tail(s) } } : TRUE

\* mutant of SortByScoreDesc: the comparator is reversed (a.score - b.score)
RECURSIVE InsertByScoreAsc(_, _)
InsertByScoreAsc(sorted, t) ==
    IF sorted = <<>> THEN <<t>>
    ELSE IF Head(sorted).score <= t.score
         THEN <<Head(sorted)>> \o InsertByScoreAsc(Tail(sorted), t)
         ELSE <<t>> \o sorted

RECURSIVE SortFromAsc(_, _)
SortFromAsc(acc, s) ==
    IF s = <<>> THEN acc
    ELSE CHOOSE r \in { SortFromAsc(a, rest) :
                          a \in { InsertByScoreAsc(acc, Head(s)) },
                          rest \in { Tail(s) } } : TRUE

SortByScoreAsc(s) == SortFromAsc(<<>>, s)

SortByScoreDesc(s) == SortFrom(<<>>, s)

IsSortedDesc(s) == \A i \in 1..(Len(s) - 1) : s[i].score >= s[i + 1].score

----------------------------------------------------------------------------
(* Map<string, Tag> with insertion order: a sequence of [key, value].      *)

MapHas(m, k) == \E i \in 1..Len(m) : m[i].key = k

MapIndex(m, k) == CHOOSE i \in 1..Len(m) : m[i].key = k

MapGet(m, k) == m[MapIndex(m, k)].value

MapSet(m, k, v) ==
    IF MapHas(m, k)
    THEN [m EXCEPT ![MapIndex(m, k)] = [key |-> k, value |-> v]]
    ELSE Append(m, [key |-> k, value |-> v])

MapValues(m) == [i \in 1..Len(m) |-> m[i].value]

----------------------------------------------------------------------------
(* mergeTags                                                               *)

\* localTags.forEach(tag => combined.set(normalized, {...tag, source:'local'}))
RECURSIVE MergeSeedLocal(_, _)
MergeSeedLocal(combined, tags) ==
    IF tags = <<>> THEN combined
    ELSE CHOOSE r \in { MergeSeedLocal(c, rest) :
                          c \in { MapSet(combined, normalizeTag(Head(tags).name),
                                         [Head(tags) EXCEPT !.source = "local"]) },
                          rest \in { Tail(tags) } } : TRUE

\* mutant of MergeOllamaStep: unique reasoning tags are always admitted
MergeOllamaStepAdmitAll(combined, tag, hasLocalTags) ==
    LET normalized == normalizeTag(tag.name) IN
    IF MapHas(combined, normalized)
    THEN LET existing == MapGet(combined, normalized) IN
         MapSet(combined, normalized,
                [existing EXCEPT !.score = Max(existing.score, tag.score),
                                 !.source = "both"])
    ELSE MapSet(combined, normalized, [tag EXCEPT !.source = "ollama"])

\* mutant of MergeOllamaStep: parity keeps the local score and source
MergeOllamaStepNoBoost(combined, tag, hasLocalTags) ==
    LET normalized == normalizeTag(tag.name) IN
    IF MapHas(combined, normalized)
    THEN combined
    ELSE IF ~hasLocalTags
         THEN MapSet(combined, normalized, [tag EXCEPT !.source = "ollama"])
         ELSE combined

\* the body of ollamaTags.forEach(tag => ...)
MergeOllamaStep(combined, tag, hasLocalTags) ==
    LET normalized == normalizeTag(tag.name) IN
    IF MapHas(combined, normalized)
    THEN LET existing == MapGet(combined, normalized) IN
         MapSet(combined, normalized,
                [existing EXCEPT !.score = Max(existing.score, tag.score),
                                 !.source = "both"])
    ELSE IF ~hasLocalTags
         THEN MapSet(combined, normalized, [tag EXCEPT !.source = "ollama"])
         ELSE combined

RECURSIVE MergeOllamaLoop(_, _, _)
MergeOllamaLoop(combined, tags, hasLocalTags) ==
    IF tags = <<>> THEN combined
    ELSE CHOOSE r \in { MergeOllamaLoop(c, rest, hasLocalTags) :
                          c \in { MergeOllamaStep(combined, Head(tags), hasLocalTags) },
                          rest \in { Tail(tags) } } : TRUE

mergeTags(localTagsArg, ollamaTagsArg) ==
    LET hasLocalTags == Len(localTagsArg) > 0 IN
    CHOOSE r \in { SortByScoreDesc(MapValues(combined)) :
                     combined \in { MergeOllamaLoop(seeded, ollamaTagsArg, hasLocalTags) :
                                      seeded \in { MergeSeedLocal(<<>>, localTagsArg) } } } : TRUE

----------------------------------------------------------------------------
(* Tag vocabulary service: tagDatabase, isLoaded, getCategory              *)

\* the rows of /selected_tags.csv as loadTagDatabase stores them
\* (name -> CATEGORY_MAPPING[categoryId])
CsvNames == { <<"fate">>, <<"saber">>, <<"highres">>, <<"general">> }

CsvTable ==
    [n \in CsvNames |->
        CASE n = <<"fate">> -> "copyright"
          [] n = <<"saber">> -> "character"
          [] n = <<"highres">> -> "general"
          [] n = <<"general">> -> "general"]

EmptyTable == [n \in {} |-> "general"]

RatingWords ==
    { <<"general">>, <<"safe">>, <<"questionable">>, <<"explicit">>,
      <<"sensitive">>, <<"nsfw">> }

MetaWords ==
    { <<"highres">>, <<"absurdres">>, <<"4k">>, <<"8k">>, <<"masterpiece">>,
      <<"best", " ", "quality">>, <<"comic">>, <<"monochrome">>,
      <<"greyscale">>, <<"lowres">>, <<"bad", " ", "quality">>,
      <<"worst", " ", "quality">> }

CountWords ==
    { <<"1girl">>, <<"1boy">>, <<"2girls">>, <<"2boys">>,
      <<"multiple", " ", "girls">>, <<"multiple", " ", "boys">> }

\* getCategory, step 2: the fallback heuristics for names not in the table
CategoryHeuristic(tagName) ==
    IF (tagName # <<>> /\ Head(tagName) = "rating:") \/ tagName \in RatingWords
    THEN "rating"
    ELSE IF tagName \in MetaWords THEN "meta"
    ELSE IF tagName \in CountWords THEN "general"
    ELSE "general"

\* mutant of getCategory: the heuristics are tried before the table
getCategoryHeuristicsFirst(db, tagName) ==
    IF CategoryHeuristic(tagName) # "general" THEN CategoryHeuristic(tagName)
    ELSE IF tagName \in DOMAIN db THEN db[tagName]
    ELSE "general"

\* getCategory(tagName) against the table db
getCategory(db, tagName) ==
    IF tagName \in DOMAIN db THEN db[tagName]
    ELSE CategoryHeuristic(tagName)

\* isTagInCategory(name, category): the table names the tag with that category
isTagInCategory(db, tagName, category) ==
    tagName \in DOMAIN db /\ db[tagName] = category

----------------------------------------------------------------------------
(* fetchLocalTags: normalisation of the tagger's response                  *)

\* normalized score: a value above 1.0 is taken as a percentage
NormalizeScore(score) == IF score > 100 THEN score \div 100 ELSE score

HallucinationNames == { <<"blue", "_", "skin">>, <<"colored", "_", "skin">> }

HallucinationThreshold == 85

\* mutant of KeepLocalTag: a skin-colour tag must score above the threshold
KeepLocalTagAbove(tag) ==
    ~(tag.name \in HallucinationNames
        /\ (tag.score = NaN \/ tag.score <= HallucinationThreshold))

\* tags.filter(...): drop low-confidence skin-colour tags
KeepLocalTag(tag) ==
    ~(tag.name \in HallucinationNames
        /\ tag.score # NaN /\ tag.score < HallucinationThreshold)

\* the forEach over the [name, score] items of data.tags
RECURSIVE LocalItemsToTags(_, _)
LocalItemsToTags(db, items) ==
    IF items = <<>> THEN <<>>
    ELSE LET item == Head(items)
             rest == LocalItemsToTags(db, Tail(items))
         IN IF item.name # <<>>
            THEN <<[name |-> item.name,
                    score |-> NormalizeScore(item.score),
                    category |-> getCategory(db, item.name),
                    source |-> "none"]>> \o rest
            ELSE rest

\* Number(item.score || item.confidence || item.probability) for an object
\* that carries its score in the one field scoreField: a score of 0 is
\* falsy, so that || goes on to the next field, which is undefined, unless
\* the field is the last one
ObjectItemScore(scoreField, score) ==
    IF score # 0 THEN score
    ELSE IF scoreField = "probability" THEN 0
    ELSE NaN

\* the forEach over the {name|tag, score|confidence|probability} items
RECURSIVE LocalObjectsToTags(_, _, _)
LocalObjectsToTags(db, items, scoreField) ==
    IF items = <<>> THEN <<>>
    ELSE LET item == Head(items)
             rest == LocalObjectsToTags(db, Tail(items), scoreField)
         IN IF item.name # <<>>
            THEN <<[name |-> item.name,
                    score |-> NormalizeScore(ObjectItemScore(scoreField, item.score)),
                    category |-> getCategory(db, item.name),
                    source |-> "none"]>> \o rest
            ELSE rest

\* Object.entries(tagsData).forEach(([name, score]) => ...): every entry
LocalMapToTags(db, items) ==
    [i \in 1..Len(items) |->
        [name |-> items[i].name,
         score |-> NormalizeScore(items[i].score),
         category |-> getCategory(db, items[i].name),
         source |-> "none"]]

\* a response body: the items in one of the shapes, under data.tags or,
\* wrapped, under data[0].tags
LocalBody(wrapped, shape, nameField, scoreField, items) ==
    [wrapped |-> wrapped, shape |-> shape, nameField |-> nameField,
     scoreField |-> scoreField, items |-> items]

\* the list "tags" before the filter
LocalTagsOf(db, body) ==
    CASE body.shape = "map" -> LocalMapToTags(db, body.items)
      [] body.shape = "pairs" -> LocalItemsToTags(db, body.items)
      [] body.shape = "objects" -> LocalObjectsToTags(db, body.items, body.scoreField)

\* what fetchLocalTags returns for a response body; maxTags 0 is no maxTags
LocalTagsReturned(db, body, maxTags) ==
    LET sortedTags == SortByScoreDesc(SelectSeq(LocalTagsOf(db, body), KeepLocalTag)) IN
    IF maxTags > 0 /\ maxTags < Len(sortedTags)
    THEN SubSeq(sortedTags, 1, maxTags)
    ELSE sortedTags

\* the tags fetchLocalTags returns for the [name, score] items data
\* (settings undefined)
ParseLocalResponse(db, data) ==
    LocalTagsReturned(db, LocalBody(FALSE, "pairs", "name", "score", data), 0)

\* !config.taggerEndpoint || config.taggerEndpoint.trim() === ''
TaggerEndpointMissing(cfg) ==
    cfg.taggerEndpoint = <<>> \/ trim(cfg.taggerEndpoint) = <<>>

----------------------------------------------------------------------------
(* fetchOllamaTagsAndSummary: parsing of the model's text                  *)

\* the characters of a token: a word of letters or digits, a blank, a
\* newline or a punctuation mark each count as one character; the markers
\* are a word and punctuation
TokenChars(c) ==
    CASE c = "Tags:" -> <<"Tags", ":">>
      [] c = "Summary:" -> <<"Summary", ":">>
      [] c = "tags:" -> <<"tags", ":">>
      [] c = "summary:" -> <<"summary", ":">>
      [] c = "rating:" -> <<"rating", ":">>
      [] c = "Rating:" -> <<"Rating", ":">>
      [] c = "<think>" -> <<"<", "think", ">">>
      [] c = "</think>" -> <<"<", "/", "think", ">">>
      [] c = "Sure, here is" -> <<"Sure", ",", " ", "here", " ", "is">>
      [] OTHER -> <<c>>

\* the punctuation marks among the characters of the model
PunctuationChars ==
    { "_", "-", ":", "/", ",", ".", "<", ">", "?", "!", "@", "(", ")" }

\* the character class [\p{L}\p{N}\s,.<>?!@()]: letters and digits (the
\* words), whitespace, and the listed punctuation
KeptByFilter(ch) ==
    \/ ch \notin PunctuationChars
    \/ ch \in { ",", ".", "<", ">", "?", "!", "@", "(", ")" }

\* mutant of SanitizeToken: the hyphen is kept as well
SanitizeTokenKeepHyphen(c) ==
    LET Kept(ch) == KeptByFilter(ch) \/ ch = "-" IN SelectSeq(TokenChars(c), Kept)

\* text.replace(/[^\p{L}\p{N}\s,.<>?!@()]/gu, ''), token by token
SanitizeToken(c) == SelectSeq(TokenChars(c), KeptByFilter)

RECURSIVE sanitizeDescription(_)
sanitizeDescription(text) ==
    IF text = <<>> THEN <<>>
    ELSE SanitizeToken(Head(text)) \o sanitizeDescription(Tail(text))

\* least index >= from whose token is tok ignoring case; 0 when there is none
FirstIndexOf(text, tok, from) ==
    LET hits == { i \in from..Len(text) : ToLowerToken(text[i]) = tok } IN
    IF hits = {} THEN 0 ELSE CHOOSE i \in hits : \A j \in hits : i <= j

\* the index after the run of whitespace that starts at i (greedy \s*)
SkipSpaces(text, i) ==
    LET stops == { j \in i..(Len(text) + 1) : j = Len(text) + 1 \/ ~IsSpace(text[j]) } IN
    CHOOSE j \in stops : \A k \in stops : j <= k

\* text.match(/Tags:\s*([\s\S]*?)(?:\n\s*Summary:|$)/i)
\* [found, start, capture, end]: the match covers text[start..end]
TagsMatch(text) ==
    LET i == FirstIndexOf(text, "tags:", 1) IN
    IF i = 0 THEN [found |-> FALSE, start |-> 0, capture |-> <<>>, end |-> 0]
    ELSE LET k == SkipSpaces(text, i + 1)
             ends == { e \in k..Len(text) :
                         /\ text[e] = "\n"
                         /\ SkipSpaces(text, e + 1) <= Len(text)
                         /\ ToLowerToken(text[SkipSpaces(text, e + 1)]) = "summary:" }
         IN IF ends = {}
            THEN [found |-> TRUE, start |-> i,
                  capture |-> SubSeq(text, k, Len(text)), end |-> Len(text)]
            ELSE LET e == CHOOSE x \in ends : \A y \in ends : x <= y IN
                 [found |-> TRUE, start |-> i,
                  capture |-> SubSeq(text, k, e - 1),
                  end |-> SkipSpaces(text, e + 1)]

\* text.match(/Summary:\s*([\s\S]*)/i)
SummaryMatch(text) ==
    LET i == FirstIndexOf(text, "summary:", 1) IN
    IF i = 0 THEN [found |-> FALSE, capture |-> <<>>]
    ELSE [found |-> TRUE,
          capture |-> SubSeq(text, SkipSpaces(text, i + 1), Len(text))]

\* String.prototype.split(','): the pieces between the commas
RECURSIVE SplitComma(_, _)
SplitComma(cur, s) ==
    IF s = <<>> THEN <<cur>>
    ELSE IF Head(s) = "," THEN <<cur>> \o SplitComma(<<>>, Tail(s))
    ELSE SplitComma(Append(cur, Head(s)), Tail(s))

\* tagsMatch ? tagsMatch[1].split(',').map(t => t.trim()) : []
RawTags(text) ==
    LET m == TagsMatch(text) IN
    IF m.found
    THEN LET pieces == SplitComma(<<>>, m.capture) IN
         [i \in 1..Len(pieces) |-> trim(pieces[i])]
    ELSE <<>>

\* the summary before sanitising
RawSummary(text) ==
    LET tm == TagsMatch(text)
        sm == SummaryMatch(text)
    IN IF sm.found THEN trim(sm.capture)
       ELSE IF tm.found
            THEN trim(SubSeq(text, 1, tm.start - 1) \o SubSeq(text, tm.end + 1, Len(text)))
            ELSE text

OllamaDefaultScore == 70

\* what fetchOllamaTagsAndSummary returns for the response text
ParseOllamaResponse(db, text) ==
    LET rawTags == RawTags(text) IN
    [tags |-> [i \in 1..Len(rawTags) |->
                  Tag(rawTags[i], OllamaDefaultScore, getCategory(db, rawTags[i]), "ollama")],
     summary |-> [defined |-> TRUE, text |-> sanitizeDescription(RawSummary(text))]]

\* mutant of OllamaEmptyResult: the summary is left undefined
OllamaEmptyResultNoSummary ==
    [tags |-> <<>>, summary |-> [defined |-> FALSE, text |-> <<>>]]

\* the catch block and the missing-endpoint return: { tags: [], summary: "" }
OllamaEmptyResult == [tags |-> <<>>, summary |-> [defined |-> TRUE, text |-> <<>>]]

\* the initial value { tags: [], summary: undefined }
OllamaInitialData == [tags |-> <<>>, summary |-> [defined |-> FALSE, text |-> <<>>]]

----------------------------------------------------------------------------
(* generateCaption and fetchOllamaDescription: the returned description    *)

\* cleanResponse.replace(/<think>[\s\S]*?<\/think>/gi, ''): every block from
\* a "<think>" to the first "</think>" after it is removed
RECURSIVE RemoveThinkBlocks(_)
RemoveThinkBlocks(text) ==
    LET i == FirstIndexOf(text, "<think>", 1) IN
    IF i = 0 THEN text
    ELSE LET j == FirstIndexOf(text, "</think>", i + 1) IN
         IF j = 0 THEN text
         ELSE SubSeq(text, 1, i - 1) \o RemoveThinkBlocks(SubSeq(text, j + 1, Len(text)))

\* the alternatives of the meta-commentary prefix
MetaPrefixes == { "Sure, here is" }

TokenLen(c) ==
    CASE c = "<think>" -> 7
      [] c = "</think>" -> 8
      [] c = "Sure, here is" -> 13
      [] OTHER -> 1

RECURSIVE CharLen(_)
CharLen(text) == IF text = <<>> THEN 0 ELSE TokenLen(Head(text)) + CharLen(Tail(text))

\* cleanResponse.replace(/^(Here is a description|Sure, here is|...).{0,20}:\s*/i, '')
\* a prefix at the start, at most 20 characters without a newline, greedy,
\* a colon, and the whitespace after it
StripMetaPrefix(text) ==
    IF text # <<>> /\ Head(text) \in MetaPrefixes
    THEN LET colons == { k \in 2..Len(text) :
                           /\ text[k] = ":"
                           /\ \A m \in 2..(k - 1) : text[m] # "\n"
                           /\ CharLen(SubSeq(text, 2, k - 1)) <= 20 }
         IN IF colons = {} THEN text
            ELSE LET k == CHOOSE x \in colons : \A y \in colons : y <= x IN
                 SubSeq(text, SkipSpaces(text, k + 1), Len(text))
    ELSE text

\* generateCaption, local_hybrid: the string returned for data.response
CaptionOfOllama(text) ==
    sanitizeDescription(trim(StripMetaPrefix(RemoveThinkBlocks(text))))

\* generateCaption, gemini: sanitizeDescription(response.text || "")
CaptionOfGemini(defined, text) ==
    sanitizeDescription(IF defined THEN text ELSE <<>>)

\* fetchOllamaDescription: sanitizeDescription(data.response)
DescriptionOfOllama(text) == sanitizeDescription(text)

----------------------------------------------------------------------------
(* enrichTagsWithCopyrights and fetchOllamaCopyrights                      *)

\* tag.name.match(/.*\((.*?)\)/): the last "(" that a ")" follows, up to
\* the first ")" after it
SeriesMatch(name) ==
    LET opens == { i \in 1..Len(name) :
                     name[i] = "(" /\ \E j \in (i + 1)..Len(name) : name[j] = ")" }
    IN IF opens = {} THEN [found |-> FALSE, capture |-> <<>>]
       ELSE LET i == CHOOSE x \in opens : \A y \in opens : y <= x
                closes == { j \in (i + 1)..Len(name) : name[j] = ")" }
                j == CHOOSE x \in closes : \A y \in closes : x <= y
            IN [found |-> TRUE, capture |-> SubSeq(name, i + 1, j - 1)]

\* mutant of EnrichScanStep: the added tag gets the lookup's score and
\* source instead of the originating tag's
EnrichScanStepNoInherit(db, st, tag) ==
    LET m == SeriesMatch(tag.name) IN
    IF m.found
    THEN LET seriesName == normalizeTag(m.capture)
             isKnown == isTagInCategory(db, seriesName, "copyright")
         IN IF isKnown /\ seriesName \notin st.existingNames
            THEN [st EXCEPT
                    !.newTags = Append(@, Tag(seriesName, 90, "copyright", "ollama")),
                    !.existingNames = @ \cup {seriesName}]
            ELSE IF seriesName \notin st.existingNames
                 THEN [st EXCEPT !.queue = Append(@, tag.name)]
                 ELSE st
    ELSE IF tag.category = "character"
         THEN [st EXCEPT !.queue = Append(@, tag.name)]
         ELSE st

\* one iteration of "for (const tag of currentTags)"
EnrichScanStep(db, st, tag) ==
    LET m == SeriesMatch(tag.name) IN
    IF m.found
    THEN LET seriesName == normalizeTag(m.capture)
             isKnown == isTagInCategory(db, seriesName, "copyright")
         IN IF isKnown /\ seriesName \notin st.existingNames
            THEN [st EXCEPT
                    !.newTags = Append(@, Tag(seriesName, tag.score, "copyright", tag.source)),
                    !.existingNames = @ \cup {seriesName}]
            ELSE IF seriesName \notin st.existingNames
                 THEN [st EXCEPT !.queue = Append(@, tag.name)]
                 ELSE st
    ELSE IF tag.category = "character"
         THEN [st EXCEPT !.queue = Append(@, tag.name)]
         ELSE st

RECURSIVE EnrichScanLoop(_, _, _)
EnrichScanLoop(db, st, tags) ==
    IF tags = <<>> THEN st
    ELSE CHOOSE r \in { EnrichScanLoop(db, next, rest) :
                          next \in { EnrichScanStep(db, st, Head(tags)) },
                          rest \in { Tail(tags) } } : TRUE

\* step 1 of enrichTagsWithCopyrights: the regex extraction
EnrichScan(db, currentTags) ==
    EnrichScanLoop(db,
        [newTags |-> currentTags,
         existingNames |-> { currentTags[i].name : i \in 1..Len(currentTags) },
         queue |-> <<>>],
        currentTags)

CopyrightKnownScore == 90

CopyrightUnknownScore == 85

\* fetchOllamaCopyrights: the tags built from the parsed array of names
CopyrightTags(db, copyrights) ==
    [i \in 1..Len(copyrights) |->
        LET normalized == normalizeTag(copyrights[i]) IN
        Tag(normalized,
            IF isTagInCategory(db, normalized, "copyright")
            THEN CopyrightKnownScore ELSE CopyrightUnknownScore,
            "copyright", "ollama")]

\* "for (const tag of ollamaCopyrights) if (!existingNames.has(tag.name)) ..."
RECURSIVE EnrichAddLookup(_, _)
EnrichAddLookup(st, tags) ==
    IF tags = <<>> THEN st
    ELSE CHOOSE r \in { EnrichAddLookup(next, rest) :
                          next \in { IF Head(tags).name \notin st.existingNames
                                     THEN [st EXCEPT
                                             !.newTags = Append(@, Head(tags)),
                                             !.existingNames = @ \cup {Head(tags).name}]
                                     ELSE st },
                          rest \in { Tail(tags) } } : TRUE

NoEnrichLocals == [newTags |-> <<>>, existingNames |-> {}, queue |-> <<>>]

\* mutant of LookupBatches: one request for each queued name
LookupBatchesPerTag(queue) == [i \in 1..Len(queue) |-> <<queue[i]>>]

\* the lists of names fetchOllamaCopyrights is called with: one call with
\* charactersNeedingLookup
LookupBatches(queue) == <<queue>>

\* step 2 is entered: charactersNeedingLookup.length > 0 && config.ollamaEndpoint
LookupIssued(queue, endpoint) == Len(queue) > 0 /\ endpoint # <<>>

\* enrichTagsWithCopyrights(currentTags, config) against the table db, the
\* lookup answering with the outcome lookup: the tags returned, the names
\* queued and the lists of names requested
enrichTagsWithCopyrights(db, currentTags, endpoint, lookup) ==
    LET st == EnrichScan(db, currentTags)
        issued == LookupIssued(st.queue, endpoint)
        found == IF issued /\ lookup.ok THEN CopyrightTags(db, lookup.copyrights)
                 ELSE <<>>
        final == EnrichAddLookup(st, found)
    IN [tags |-> SortByScoreDesc(final.newTags),
        queue |-> st.queue,
        requested |-> IF issued THEN LookupBatches(st.queue) ELSE <<>>]

----------------------------------------------------------------------------
(* generateTagsLocalHybrid: the points the model's mutants vary            *)

ProgressAnalyzingLocal == 10

ProgressEnriching == 30

ProgressConsulting == 50

\* mutant of ProgressMerging: the merge milestone is reported as 40
ProgressMergingLow == 80 - 40

ProgressMerging == 80

ProgressFinalizing == 100

\* mutant of OnLoadFailed: loadTagDatabase has no try/catch
OnLoadFailedRethrow == [pc |-> "done", outcome |-> "raised"]

\* catch (error) { console.error("[TagService] Error loading ..."); }: the
\* call resolves and generateTags goes on
OnLoadFailed == [pc |-> "local", outcome |-> "pending"]

\* mutant of OnLocalTaggerFailed: no try/catch around fetchLocalTags
OnLocalTaggerFailedRethrow == [pc |-> "done", outcome |-> "raised"]

\* catch (e) { console.error("Local Tagger Failed:", e); }: go on to enrich
OnLocalTaggerFailed == [pc |-> "enrich", outcome |-> "pending"]

\* mutant of ShouldConsultOllama: the toggle is ignored
ShouldConsultOllamaAlways(cfg) == TRUE

\* if (config.enableNaturalLanguage)
ShouldConsultOllama(cfg) == cfg.enableNaturalLanguage

\* mutant of AssignEnriched: the enriched list is not assigned
AssignEnrichedDropped(old, enriched) == old

\* localTags = await enrichTagsWithCopyrights(localTags, config)
AssignEnriched(old, enriched) == enriched

----------------------------------------------------------------------------
(* Inputs of the pipeline specification                                    *)

Endpoint == <<"http">>

Configs ==
    [type : {"local_hybrid"},
     taggerEndpoint : { <<>>, <<" ">>, Endpoint },
     ollamaEndpoint : { <<>>, Endpoint },
     enableNaturalLanguage : BOOLEAN]

Item(n, s) == [name |-> n, score |-> s]

\* bodies the local tagger may answer with (data.tags as [name, score] items)
LocalResponses ==
    { <<>>,
      << Item(<<"1girl">>, 95), Item(<<"blue", "_", "skin">>, 50) >>,
      << Item(<<"saber">>, 80), Item(<<"artoria", "_", "(", "Fate", ")">>, 9000) >>,
      << Item(<<"rin", "_", "(", "moon", ")">>, 70),
         Item(<<"sakura", "_", "(", "moon", ")">>, 60) >> }

\* outcomes of the copyright lookup: a failure, or the parsed array of names
LookupFailures == { "network_error", "empty_response", "parse_error" }

LookupArrays == { << <<"Fate">> >>, << <<"type", "-", "moon">>, <<"fate">> >> }

\* texts the reasoning model may answer the captioning prompt with
OllamaTexts ==
    { <<"Tags:", " ", "1girl", ",", " ", "cat", "\n", "Summary:", " ", "a", "-", "girl">>,
      <<"Tags:", " ", "cat", ",", "saber", " ", "Summary:", " ", "a", " ", "cat">>,
      <<"Tags:", " ", "cat", ",", "\n", "Summary:", " ", "a">>,
      <<"a", " ", "cat">>,
      <<>> }

\* what the captioning request may end in: the fetch rejects, the body is
\* not JSON, the JSON has no response string, or it has the string text
OllamaResponses ==
    [kind : {"network_error", "not_json", "no_response_string"}, text : {<<>>}]
        \cup [kind : {"text"}, text : OllamaTexts]

\* the try block throws: fetch rejects (line 732), response.json() rejects
\* (line 747), or text is undefined and text.match raises a TypeError
\* (line 752)
OllamaCallThrows(resp) == resp.kind # "text"

Request(k, tags, names) == [kind |-> k, existingTags |-> tags, characters |-> names]

AllPending == [local |-> "pending", enrich |-> "pending", consult |-> "pending",
               merge |-> "pending"]

NoneFailed == [load |-> FALSE, local |-> FALSE, lookup |-> FALSE, consult |-> FALSE]

NoResult == [tags |-> <<>>, naturalDescription |-> [defined |-> FALSE, text |-> <<>>]]

NoDescription == [defined |-> FALSE, text |-> <<>>]

\* useState<InterrogationResult | null>(null)
NullResult == [set |-> FALSE, naturalDescription |-> NoDescription]

\* the settings of useState<TaggingSettings>: thresholds 0.7, rating 0.8
DefaultSettings ==
    [thresholds |-> [general |-> 70, character |-> 70, copyright |-> 70,
                     artist |-> 70, meta |-> 70, rating |-> 80],
     topK |-> 50, randomize |-> FALSE]

NoArrays == [result |-> <<>>, filtered |-> <<>>, sliced |-> <<>>]

\* useState<File | null>(null)
NoFile == 0

\* the images the user may pick
Files == {1, 2}

\* no function is being checked on its own
NoCall == [fn |-> "none"]

FnIdle ==
    /\ fnCall = NoCall
    /\ fnRet = <<>>
    /\ fnDone = FALSE

\* the state of App after its first render
AppIdle ==
    /\ appState = "IDLE"
    /\ selectedFile = NoFile
    /\ interrogated = NoFile
    /\ appResult = NullResult
    /\ appError = FALSE
    /\ settings = DefaultSettings
    /\ arrays = NoArrays
    /\ shown = "none"
    /\ cloudFailure = "none"

\* the pipeline variables before generateTags is called
PipelineIdle ==
    /\ config = [type |-> "local_hybrid", taggerEndpoint |-> Endpoint,
                 ollamaEndpoint |-> Endpoint, enableNaturalLanguage |-> TRUE]
    /\ pc = "idle"
    /\ tagDatabase = EmptyTable
    /\ isLoaded = FALSE
    /\ csvInFlight = {}
    /\ localTags = <<>>
    /\ enrichLocals = NoEnrichLocals
    /\ enrichRet = <<>>
    /\ ollamaData = OllamaInitialData
    /\ result = NoResult
    /\ outcome = "pending"
    /\ progress = <<>>
    /\ requests = <<>>
    /\ inFlight = {}
    /\ stage = AllPending
    /\ failed = NoneFailed
    /\ AppIdle

----------------------------------------------------------------------------
(* Specification SpecMerge: one call of mergeTags on arbitrary bounded tag *)
(* lists (raw names that differ in case and blanks, equal and unequal      *)
(* scores, repeated names).                                                *)

MaxMergeTags == 2

MergeNames == { <<"a">>, <<"A", " ">>, <<"b", " ", "c">> }

MergeScores == {50, 80}

MergeCategoryOf(n) == IF n = <<"A", " ">> THEN "character" ELSE "general"

MergeTagUniverse ==
    { Tag(n, s, MergeCategoryOf(n), "none") : n \in MergeNames, s \in MergeScores }

SeqsUpTo(S, n) == UNION { [1..k -> S] : k \in 0..n }

InitMerge ==
    /\ mergeCall \in [localTags : SeqsUpTo(MergeTagUniverse, MaxMergeTags),
                      ollamaTags : SeqsUpTo(MergeTagUniverse, MaxMergeTags)]
    /\ mergeRet = <<>>
    /\ mergeDone = FALSE
    /\ PipelineIdle
    /\ FnIdle

CallMergeTags ==
    /\ ~mergeDone
    /\ mergeRet' = mergeTags(mergeCall.localTags, mergeCall.ollamaTags)
    /\ mergeDone' = TRUE
    /\ UNCHANGED <<mergeCall, dbVars, pipeVars, appVars, fnVars>>

NextMerge == CallMergeTags

SpecMerge == InitMerge /\ [][NextMerge]_vars

----------------------------------------------------------------------------
(* Specification Spec: one interrogation through generateTags with         *)
(* config.type = 'local_hybrid', every backend call free to succeed or     *)
(* fail.  The module-level loadTagDatabase() has already issued its fetch. *)

Init ==
    /\ config \in Configs
    /\ pc = "start"
    /\ tagDatabase = EmptyTable
    /\ isLoaded = FALSE
    /\ csvInFlight = {"import"}
    /\ localTags = <<>>
    /\ enrichLocals = NoEnrichLocals
    /\ enrichRet = <<>>
    /\ ollamaData = OllamaInitialData
    /\ result = NoResult
    /\ outcome = "pending"
    /\ progress = <<>>
    /\ requests = <<>>
    /\ inFlight = {}
    /\ stage = AllPending
    /\ failed = NoneFailed
    /\ mergeCall = [localTags |-> <<>>, ollamaTags |-> <<>>]
    /\ mergeRet = <<>>
    /\ mergeDone = FALSE
    /\ AppIdle
    /\ FnIdle

\* the rows of the csv written into the table: tagDatabase.set(name, category)
LoadRows(db) ==
    [n \in (DOMAIN db) \cup CsvNames |-> IF n \in CsvNames THEN CsvTable[n] ELSE db[n]]

\* generateTags: await loadTagDatabase(), up to its fetch
GenerateTagsStart ==
    /\ pc = "start"
    /\ IF isLoaded
       THEN /\ pc' = "local"
            /\ UNCHANGED csvInFlight
       ELSE /\ pc' = "await_db"
            /\ csvInFlight' = csvInFlight \cup {"call"}
    /\ UNCHANGED <<tagDatabase, isLoaded, config, localTags, enrichLocals, enrichRet,
                   ollamaData, result, outcome, progress, requests, inFlight,
                   stage, failed, mergeVars, appVars, fnVars>>

\* loadTagDatabase after its fetch settled: the table is filled, or the
\* error is logged and swallowed
LoadTagDatabaseSettle(caller, ok) ==
    /\ caller \in csvInFlight
    /\ csvInFlight' = csvInFlight \ {caller}
    /\ IF ok
       THEN /\ tagDatabase' = LoadRows(tagDatabase)
            /\ isLoaded' = TRUE
       ELSE UNCHANGED <<tagDatabase, isLoaded>>
    /\ failed' = [failed EXCEPT !.load = @ \/ ~ok]
    /\ IF caller = "call"
       THEN IF ok
            THEN /\ pc' = "local"
                 /\ UNCHANGED outcome
            ELSE /\ pc' = OnLoadFailed.pc
                 /\ outcome' = OnLoadFailed.outcome
       ELSE UNCHANGED <<pc, outcome>>
    /\ UNCHANGED <<config, localTags, enrichLocals, enrichRet, ollamaData, result,
                   progress, requests, inFlight, stage, mergeVars, appVars, fnVars>>

\* generateTagsLocalHybrid up to the fetch inside fetchLocalTags
FetchLocalStart ==
    /\ pc = "local"
    /\ config.type = "local_hybrid"
    /\ progress' = Append(progress, ProgressAnalyzingLocal)
    /\ IF TaggerEndpointMissing(config)
       THEN /\ pc' = OnLocalTaggerFailed.pc
            /\ outcome' = OnLocalTaggerFailed.outcome
            /\ failed' = [failed EXCEPT !.local = TRUE]
            /\ stage' = [stage EXCEPT !.local = "settled"]
            /\ UNCHANGED <<requests, inFlight>>
       ELSE /\ pc' = "await_local"
            /\ requests' = Append(requests, Request("interrogate", <<>>, <<>>))
            /\ inFlight' = inFlight \cup {"interrogate"}
            /\ stage' = [stage EXCEPT !.local = "running"]
            /\ UNCHANGED <<outcome, failed>>
    /\ UNCHANGED <<dbVars, config, localTags, enrichLocals, enrichRet, ollamaData,
                   result, mergeVars, appVars, fnVars>>

\* fetchLocalTags after its fetch settled: the parsed tags, or the error
\* rethrown into the orchestrator's catch
FetchLocalSettle(ok, data) ==
    /\ pc = "await_local"
    /\ inFlight' = inFlight \ {"interrogate"}
    /\ stage' = [stage EXCEPT !.local = "settled"]
    /\ IF ok
       THEN /\ localTags' = ParseLocalResponse(tagDatabase, data)
            /\ pc' = "enrich"
            /\ UNCHANGED <<outcome, failed>>
       ELSE /\ pc' = OnLocalTaggerFailed.pc
            /\ outcome' = OnLocalTaggerFailed.outcome
            /\ failed' = [failed EXCEPT !.local = TRUE]
            /\ UNCHANGED localTags
    /\ UNCHANGED <<dbVars, config, enrichLocals, enrichRet, ollamaData, result,
                   progress, requests, mergeVars, appVars, fnVars>>

\* enrichTagsWithCopyrights up to the fetch inside fetchOllamaCopyrights,
\* or to its return when no lookup is made
EnrichStart ==
    /\ pc = "enrich"
    /\ progress' = Append(progress, ProgressEnriching)
    /\ LET st == EnrichScan(tagDatabase, localTags) IN
       IF LookupIssued(st.queue, config.ollamaEndpoint)
       THEN /\ enrichLocals' = st
            /\ requests' = requests \o
                   [i \in 1..Len(LookupBatches(st.queue)) |->
                       Request("copyrights", <<>>, LookupBatches(st.queue)[i])]
            /\ inFlight' = inFlight \cup {"copyrights"}
            /\ stage' = [stage EXCEPT !.enrich = "running"]
            /\ pc' = "await_lookup"
            /\ UNCHANGED <<localTags, enrichRet>>
       ELSE /\ enrichRet' = SortByScoreDesc(st.newTags)
            /\ localTags' = AssignEnriched(localTags, SortByScoreDesc(st.newTags))
            /\ stage' = [stage EXCEPT !.enrich = "settled"]
            /\ pc' = "consult"
            /\ UNCHANGED <<enrichLocals, requests, inFlight>>
    /\ UNCHANGED <<dbVars, config, ollamaData, result, outcome, failed, mergeVars, appVars, fnVars>>

\* fetchOllamaCopyrights after its fetch settled, and the rest of
\* enrichTagsWithCopyrights
EnrichLookupSettle(ok, copyrights) ==
    /\ pc = "await_lookup"
    /\ inFlight' = inFlight \ {"copyrights"}
    /\ LET found == IF ok THEN CopyrightTags(tagDatabase, copyrights) ELSE <<>>
           st == EnrichAddLookup(enrichLocals, found)
       IN /\ enrichRet' = SortByScoreDesc(st.newTags)
          /\ localTags' = AssignEnriched(localTags, SortByScoreDesc(st.newTags))
    /\ enrichLocals' = NoEnrichLocals
    /\ failed' = [failed EXCEPT !.lookup = ~ok]
    /\ stage' = [stage EXCEPT !.enrich = "settled"]
    /\ pc' = "consult"
    /\ UNCHANGED <<dbVars, config, ollamaData, result, outcome, progress, requests,
                   mergeVars, appVars, fnVars>>

\* the captioning stage up to the fetch inside fetchOllamaTagsAndSummary,
\* its early return without an endpoint, or the skip
ConsultStart ==
    /\ pc = "consult"
    /\ progress' = Append(progress, ProgressConsulting)
    /\ IF ShouldConsultOllama(config)
       THEN IF config.ollamaEndpoint = <<>>
            THEN /\ ollamaData' = OllamaEmptyResult
                 /\ stage' = [stage EXCEPT !.consult = "settled"]
                 /\ pc' = "merge"
                 /\ UNCHANGED <<requests, inFlight>>
            ELSE /\ requests' = Append(requests, Request("caption", localTags, <<>>))
                 /\ inFlight' = inFlight \cup {"caption"}
                 /\ stage' = [stage EXCEPT !.consult = "running"]
                 /\ pc' = "await_consult"
                 /\ UNCHANGED ollamaData
       ELSE /\ stage' = [stage EXCEPT !.consult = "skipped"]
            /\ pc' = "merge"
            /\ UNCHANGED <<ollamaData, requests, inFlight>>
    /\ UNCHANGED <<dbVars, config, localTags, enrichLocals, enrichRet, result,
                   outcome, failed, mergeVars, appVars, fnVars>>

\* fetchOllamaTagsAndSummary after its fetch settled: the parsed response,
\* or its catch block
ConsultSettle(ok, text) ==
    /\ pc = "await_consult"
    /\ inFlight' = inFlight \ {"caption"}
    /\ ollamaData' = IF ok THEN ParseOllamaResponse(tagDatabase, text)
                     ELSE OllamaEmptyResult
    /\ failed' = [failed EXCEPT !.consult = ~ok]
    /\ stage' = [stage EXCEPT !.consult = "settled"]
    /\ pc' = "merge"
    /\ UNCHANGED <<dbVars, config, localTags, enrichLocals, enrichRet, result,
                   outcome, progress, requests, mergeVars, appVars, fnVars>>

\* the merge and the return of generateTagsLocalHybrid
MergeAndReturn ==
    /\ pc = "merge"
    /\ progress' = progress \o <<ProgressMerging, ProgressFinalizing>>
    /\ result' = [tags |-> mergeTags(localTags, ollamaData.tags),
                  naturalDescription |-> ollamaData.summary]
    /\ outcome' = "returned"
    /\ stage' = [stage EXCEPT !.merge = "settled"]
    /\ pc' = "done"
    /\ UNCHANGED <<dbVars, config, localTags, enrichLocals, enrichRet, ollamaData,
                   requests, inFlight, failed, mergeVars, appVars, fnVars>>

Next ==
    \/ GenerateTagsStart
    \/ \E caller \in {"import", "call"}, ok \in BOOLEAN : LoadTagDatabaseSettle(caller, ok)
    \/ FetchLocalStart
    \/ \E data \in LocalResponses : FetchLocalSettle(TRUE, data)
    \/ FetchLocalSettle(FALSE, <<>>)
    \/ EnrichStart
    \/ \E copyrights \in LookupArrays : EnrichLookupSettle(TRUE, copyrights)
    \/ \E why \in LookupFailures : EnrichLookupSettle(FALSE, <<>>)
    \/ ConsultStart
    \/ \E resp \in OllamaResponses : ConsultSettle(~OllamaCallThrows(resp), resp.text)
    \/ MergeAndReturn

Spec == Init /\ [][Next]_vars

\* every pending promise settles and every continuation is run
LiveSpec == Spec /\ WF_vars(Next)

----------------------------------------------------------------------------
(* The cloud path: generateTagsGemini                                      *)

GeminiKeys == { <<>>, <<" ">>, <<"key">> }

CloudConfigs == [type : {"gemini"}, geminiApiKey : GeminiKeys]

\* tag lists the cloud model may put in its JSON answer
GeminiTagLists ==
    { << Tag(<<"1girl">>, 90, "general", "none") >>,
      << Tag(<<"solo">>, 60, "general", "none"),
         Tag(<<"saber">>, 90, "character", "none"),
         Tag(<<"safe">>, 75, "rating", "none") >> }

\* response.text of generateContent: empty, not JSON, JSON without a tags
\* field, or JSON with tags
GeminiResponses ==
    { [kind |-> "empty", tags |-> <<>>],
      [kind |-> "not_json", tags |-> <<>>],
      [kind |-> "json_no_tags", tags |-> <<>>] }
    \cup { [kind |-> "json", tags |-> t] : t \in GeminiTagLists }

\* if (!apiKey) throw new Error("Gemini API Key is missing. ...")
GeminiKeyMissing(cfg) == cfg.geminiApiKey = <<>>

\* what generateTagsGemini returns for a response: { tags: [] } for an
\* empty text and from the catch around JSON.parse, data.tags || [] otherwise
ParseGeminiResponse(resp) ==
    IF resp.kind = "empty" THEN <<>>
    ELSE IF resp.kind = "not_json" THEN <<>>
    ELSE IF resp.kind = "json_no_tags" THEN <<>>
    ELSE resp.tags

\* the failure a response stands for
GeminiResponseFailure(resp) ==
    CASE resp.kind = "empty" -> "empty_response"
      [] resp.kind = "not_json" -> "unparsable_response"
      [] OTHER -> "none"

----------------------------------------------------------------------------
(* Results: processedTags.  Arrays are objects: filter and slice allocate  *)
(* a new array, sort and the shuffle's swaps write into the array they are *)
(* called on.                                                              *)

MaxTagsShown == 3

\* settings.thresholds[tag.category] || 0.5
Threshold(st, category) ==
    IF st.thresholds[category] = 0 THEN 50 ELSE st.thresholds[category]

\* mutant of ArrayFilter: the filter writes into the array it is called on
ArrayFilterInPlace(heap, ref, st) ==
    LET Pass(tag) == tag.score >= Threshold(st, tag.category) IN
    [heap |-> [heap EXCEPT ![ref] = SelectSeq(heap[ref], Pass)], ref |-> ref]

\* result.tags.filter(tag => tag.score >= threshold): a new array
ArrayFilter(heap, ref, st) ==
    LET Pass(tag) == tag.score >= Threshold(st, tag.category) IN
    [heap |-> [heap EXCEPT !.filtered = SelectSeq(heap[ref], Pass)],
     ref |-> "filtered"]

\* tags.sort((a, b) => b.score - a.score): in place
ArraySort(heap, ref) == [heap EXCEPT ![ref] = SortByScoreDesc(heap[ref])]

\* tags.slice(0, settings.topK): a new array
ArraySlice(heap, ref, topK) ==
    [heap |-> [heap EXCEPT !.sliced =
                   SubSeq(heap[ref], 1, IF topK < Len(heap[ref]) THEN topK
                                        ELSE Len(heap[ref]))],
     ref |-> "sliced"]

\* [tags[i], tags[j]] = [tags[j], tags[i]] (indices from 0)
Swap(tags, i, j) ==
    [tags EXCEPT ![i + 1] = tags[j + 1], ![j + 1] = tags[i + 1]]

\* for (let i = tags.length - 1; i > 0; i--) { j = floor(random() * (i + 1)); swap }
RECURSIVE ShuffleFrom(_, _, _)
ShuffleFrom(tags, i, rnd) ==
    IF i > 0 THEN ShuffleFrom(Swap(tags, i, rnd[i]), i - 1, rnd) ELSE tags

\* the values Math.floor(Math.random() * (i + 1)) can take, for each i
RandomDraws ==
    { rnd \in [1..(MaxTagsShown - 1) -> 0..(MaxTagsShown - 1)] :
        \A i \in 1..(MaxTagsShown - 1) : rnd[i] <= i }

\* the body of useMemo: the heap after it ran and the array it returned
processedTags(heap, st, rnd) ==
    LET filtered == ArrayFilter(heap, "result", st)
        sorted == ArraySort(filtered.heap, filtered.ref)
        sliced == ArraySlice(sorted, filtered.ref, st.topK)
    IN IF st.randomize
       THEN [heap |-> [sliced.heap EXCEPT ![sliced.ref] =
                           ShuffleFrom(sliced.heap[sliced.ref],
                                       Len(sliced.heap[sliced.ref]) - 1, rnd)],
             ref |-> sliced.ref]
       ELSE sliced

----------------------------------------------------------------------------
(* Specification SpecApp: the App with the cloud backend configured.  One  *)
(* interrogation is in flight at a time; the user may select or clear the  *)
(* image and change the settings while it runs or after it.                *)

\* what the settings panel may be set to
SettingsChoices ==
    { [thresholds |-> th, topK |-> k, randomize |-> r] :
        th \in { DefaultSettings.thresholds,
                 [c \in DOMAIN DefaultSettings.thresholds |-> 0] },
        k \in {2, 50}, r \in BOOLEAN }

InitApp ==
    /\ config \in CloudConfigs
    /\ pc = "idle"
    /\ tagDatabase = EmptyTable
    /\ isLoaded = FALSE
    /\ csvInFlight = {"import"}
    /\ localTags = <<>>
    /\ enrichLocals = NoEnrichLocals
    /\ enrichRet = <<>>
    /\ ollamaData = OllamaInitialData
    /\ result = NoResult
    /\ outcome = "pending"
    /\ progress = <<>>
    /\ requests = <<>>
    /\ inFlight = {}
    /\ stage = AllPending
    /\ failed = NoneFailed
    /\ mergeCall = [localTags |-> <<>>, ollamaTags |-> <<>>]
    /\ mergeRet = <<>>
    /\ mergeDone = FALSE
    /\ AppIdle
    /\ FnIdle

\* validateBackendConfig() for backendConfig.type === 'gemini'
validateBackendConfig(cfg) ==
    ~(cfg.geminiApiKey = <<>> \/ trim(cfg.geminiApiKey) = <<>>)

HandleImageSelect(file) ==
    /\ selectedFile' = file
    /\ appState' = "IDLE"
    /\ appResult' = NullResult
    /\ appError' = FALSE
    /\ arrays' = NoArrays
    /\ shown' = "none"
    /\ UNCHANGED <<interrogated, settings, cloudFailure, dbVars, pipeVars, mergeVars,
                   fnVars>>

HandleClear ==
    /\ selectedFile' = NoFile
    /\ appResult' = NullResult
    /\ appState' = "IDLE"
    /\ appError' = FALSE
    /\ arrays' = NoArrays
    /\ shown' = "none"
    /\ UNCHANGED <<interrogated, settings, cloudFailure, dbVars, pipeVars, mergeVars,
                   fnVars>>

\* handleInterrogate up to "await fileToBase64(selectedFile)"
HandleInterrogate ==
    /\ selectedFile # NoFile
    /\ pc = "idle"
    /\ appState # "ANALYZING"
    /\ IF ~validateBackendConfig(config)
       THEN /\ appError' = TRUE
            /\ appState' = "ERROR"
            /\ UNCHANGED <<appResult, arrays, pc, outcome, requests, cloudFailure,
                           interrogated>>
       ELSE /\ appState' = "ANALYZING"
            /\ interrogated' = selectedFile
            /\ appError' = FALSE
            /\ appResult' = [set |-> TRUE, naturalDescription |-> NoDescription]
            /\ arrays' = [arrays EXCEPT !.result = <<>>]
            /\ pc' = "file"
            /\ outcome' = "pending"
            /\ requests' = <<>>
            /\ cloudFailure' = "none"
    /\ UNCHANGED <<selectedFile, settings, shown, dbVars, config, localTags,
                   enrichLocals, enrichRet, ollamaData, result, progress,
                   inFlight, stage, failed, mergeVars, fnVars>>

\* fileToBase64 settled: generateTags is called, or the catch block runs
FileToBase64Settle(ok) ==
    /\ pc = "file"
    /\ IF ok
       THEN /\ pc' = "start"
            /\ UNCHANGED <<appState, appError>>
       ELSE /\ pc' = "idle"
            /\ appError' = TRUE
            /\ appState' = "ERROR"
    /\ UNCHANGED <<selectedFile, interrogated, appResult, settings, arrays, shown, cloudFailure,
                   dbVars, config, localTags, enrichLocals, enrichRet, ollamaData,
                   result, outcome, progress, requests, inFlight, stage, failed,
                   mergeVars, fnVars>>

\* generateTagsGemini up to "await ai.models.generateContent(...)"; a
\* missing key throws into the catch block of handleInterrogate
GenerateTagsGeminiStart ==
    /\ pc = "local"
    /\ config.type = "gemini"
    /\ IF GeminiKeyMissing(config)
       THEN /\ pc' = "idle"
            /\ outcome' = "raised"
            /\ cloudFailure' = "missing_key"
            /\ appError' = TRUE
            /\ appState' = "ERROR"
            /\ UNCHANGED <<requests, inFlight>>
       ELSE /\ pc' = "await_gemini"
            /\ requests' = Append(requests, Request("gemini", <<>>, <<>>))
            /\ inFlight' = inFlight \cup {"gemini"}
            /\ UNCHANGED <<outcome, cloudFailure, appError, appState>>
    /\ UNCHANGED <<selectedFile, interrogated, appResult, settings, arrays, shown, dbVars, config,
                   localTags, enrichLocals, enrichRet, ollamaData, result,
                   progress, stage, failed, mergeVars, fnVars>>

\* generateContent settled, generateTagsGemini returned or threw, and the
\* rest of handleInterrogate ran
GeminiSettle(ok, resp) ==
    /\ pc = "await_gemini"
    /\ pc' = "idle"
    /\ inFlight' = inFlight \ {"gemini"}
    /\ IF ok
       THEN /\ result' = [tags |-> ParseGeminiResponse(resp),
                          naturalDescription |-> NoDescription]
            /\ outcome' = "returned"
            /\ cloudFailure' = GeminiResponseFailure(resp)
            /\ appResult' = [set |-> TRUE, naturalDescription |-> NoDescription]
            /\ arrays' = [arrays EXCEPT !.result = ParseGeminiResponse(resp)]
            /\ appState' = "SUCCESS"
            /\ UNCHANGED appError
       ELSE /\ outcome' = "raised"
            /\ cloudFailure' = "transport"
            /\ appError' = TRUE
            /\ appState' = "ERROR"
            /\ UNCHANGED <<result, appResult, arrays>>
    /\ UNCHANGED <<selectedFile, interrogated, settings, shown, dbVars, config, localTags,
                   enrichLocals, enrichRet, ollamaData, progress, requests,
                   stage, failed, mergeVars, fnVars>>

\* onSettingsChange={setSettings}; the panel is disabled while analyzing
SettingsChange(st) ==
    /\ appState # "ANALYZING"
    /\ settings' = st
    /\ UNCHANGED <<appState, selectedFile, interrogated, appResult, appError, arrays, shown,
                   cloudFailure, dbVars, pipeVars, mergeVars, fnVars>>

\* a render of <Results result={result} settings={settings} />
RenderResults(rnd) ==
    /\ appResult.set
    /\ LET r == processedTags(arrays, settings, rnd) IN
           /\ arrays' = r.heap
           /\ shown' = r.ref
    /\ UNCHANGED <<appState, selectedFile, interrogated, appResult, appError, settings,
                   cloudFailure, dbVars, pipeVars, mergeVars, fnVars>>

NextApp ==
    \/ \E file \in Files : HandleImageSelect(file)
    \/ HandleClear
    \/ HandleInterrogate
    \/ \E ok \in BOOLEAN : FileToBase64Settle(ok)
    \/ GenerateTagsStart
    \/ \E caller \in {"import", "call"}, ok \in BOOLEAN : LoadTagDatabaseSettle(caller, ok)
    \/ GenerateTagsGeminiStart
    \/ \E resp \in GeminiResponses : GeminiSettle(TRUE, resp)
    \/ GeminiSettle(FALSE, [kind |-> "empty", tags |-> <<>>])
    \/ \E st \in SettingsChoices : SettingsChange(st)
    \/ \E rnd \in RandomDraws : RenderResults(rnd)

SpecApp == InitApp /\ [][NextApp]_vars

----------------------------------------------------------------------------
(* Specification SpecCategory: one call of getCategory, for a name and a   *)
(* state of the table                                                      *)

\* TagCategory
Categories == { "general", "character", "copyright", "artist", "meta", "rating" }

\* names given to getCategory: the keys of the table, the words of the
\* heuristics, the empty string, rating-prefixed names, names that differ
\* from a word in case or by a blank, unknown names
CategoryNames ==
    CsvNames \cup RatingWords \cup MetaWords \cup CountWords
        \cup { <<>>, <<"rating:">>, <<"rating:", "safe">>, <<"Rating:", "safe">>,
               <<"highres", " ">>, <<"cat">>, <<"neko", "_", "(", "cat", ")">> }

\* states of the table: not loaded, loaded
CategoryTables == { EmptyTable, CsvTable }

\* the variables of the pipeline and of mergeTags at rest
OthersIdle ==
    /\ PipelineIdle
    /\ mergeCall = [localTags |-> <<>>, ollamaTags |-> <<>>]
    /\ mergeRet = <<>>
    /\ mergeDone = FALSE

InitCategory ==
    /\ fnCall \in [fn : {"getCategory"}, db : CategoryTables, tagName : CategoryNames]
    /\ fnRet = <<>>
    /\ fnDone = FALSE
    /\ OthersIdle

CallGetCategory ==
    /\ ~fnDone
    /\ fnCall.fn = "getCategory"
    /\ fnRet' = getCategory(fnCall.db, fnCall.tagName)
    /\ fnDone' = TRUE
    /\ UNCHANGED <<fnCall, dbVars, pipeVars, mergeVars, appVars>>

NextCategory == CallGetCategory

SpecCategory == InitCategory /\ [][NextCategory]_vars

----------------------------------------------------------------------------
(* Specification SpecLocalTags: fetchLocalTags from the response body on,  *)
(* for bodies of every shape.  Scores above 1.0 are whole percentages, so  *)
(* that the division by 100 is exact in hundredths.                        *)

MaxLocalItems == 2

LocalNames ==
    { <<"1girl">>, <<"blue", "_", "skin">>, <<"colored", "_", "skin">>, <<>> }

\* 0, 0.5, 0.85, 90 (percent), 150 (percent)
LocalScores == { 0, 50, 85, 9000, 15000 }

\* lists of items with pairwise different names
LocalItemLists ==
    { items \in SeqsUpTo([name : LocalNames, score : LocalScores], MaxLocalItems) :
        \A i, j \in 1..Len(items) : items[i].name = items[j].name => i = j }

\* the layouts of a body: map, list of pairs, list of objects with each
\* choice of field names; bare or wrapped
LocalLayouts ==
    { [wrapped |-> w, shape |-> sh, nameField |-> "name", scoreField |-> "score"] :
        w \in BOOLEAN, sh \in {"map", "pairs"} }
    \cup [wrapped : BOOLEAN, shape : {"objects"}, nameField : {"name", "tag"},
          scoreField : {"score", "confidence", "probability"}]

InitLocalTags ==
    /\ \E layout \in LocalLayouts, items \in LocalItemLists, maxTags \in {0, 1} :
           fnCall = [fn |-> "fetchLocalTags", db |-> CsvTable,
                     body |-> LocalBody(layout.wrapped, layout.shape, layout.nameField,
                                        layout.scoreField, items),
                     maxTags |-> maxTags]
    /\ fnRet = <<>>
    /\ fnDone = FALSE
    /\ OthersIdle

CallFetchLocalTags ==
    /\ ~fnDone
    /\ fnCall.fn = "fetchLocalTags"
    /\ fnRet' = LocalTagsReturned(fnCall.db, fnCall.body, fnCall.maxTags)
    /\ fnDone' = TRUE
    /\ UNCHANGED <<fnCall, dbVars, pipeVars, mergeVars, appVars>>

NextLocalTags == CallFetchLocalTags

SpecLocalTags == InitLocalTags /\ [][NextLocalTags]_vars

----------------------------------------------------------------------------
(* Specification SpecDescription: the description each function hands back *)
(* for a text of the model: naturalDescription of the hybrid pipeline      *)
(* (fetchOllamaTagsAndSummary), generateCaption on either backend,         *)
(* fetchOllamaDescription.  A response without text makes the Ollama       *)
(* functions raise, so that no description is handed back.                 *)

MaxTextLen == 4

SummaryAlphabet == { "Tags:", "Summary:", "\n", " ", ",", "a", "-" }

CaptionAlphabet == { "<think>", "</think>", "Sure, here is", ":", " ", "a", "-" }

PlainAlphabet == { "a", "-", " ", "(" }

DescriptionCalls ==
    [fn : {"fetchOllamaTagsAndSummary"}, defined : {TRUE},
     text : SeqsUpTo(SummaryAlphabet, MaxTextLen)]
    \cup [fn : {"generateCaption"}, defined : {TRUE},
          text : SeqsUpTo(CaptionAlphabet, MaxTextLen)]
    \cup [fn : {"generateCaptionGemini"}, defined : {TRUE},
          text : SeqsUpTo(PlainAlphabet, MaxTextLen)]
    \cup [fn : {"generateCaptionGemini"}, defined : {FALSE}, text : {<<>>}]
    \cup [fn : {"fetchOllamaDescription"}, defined : {TRUE},
          text : SeqsUpTo(PlainAlphabet, MaxTextLen)]

InitDescription ==
    /\ fnCall \in DescriptionCalls
    /\ fnRet = <<>>
    /\ fnDone = FALSE
    /\ OthersIdle

CallDescription ==
    /\ ~fnDone
    /\ fnCall.fn \in { "fetchOllamaTagsAndSummary", "generateCaption",
                       "generateCaptionGemini", "fetchOllamaDescription" }
    /\ fnRet' =
         CASE fnCall.fn = "fetchOllamaTagsAndSummary" ->
                  ParseOllamaResponse(CsvTable, fnCall.text).summary.text
           [] fnCall.fn = "generateCaption" -> CaptionOfOllama(fnCall.text)
           [] fnCall.fn = "generateCaptionGemini" ->
                  CaptionOfGemini(fnCall.defined, fnCall.text)
           [] fnCall.fn = "fetchOllamaDescription" -> DescriptionOfOllama(fnCall.text)
    /\ fnDone' = TRUE
    /\ UNCHANGED <<fnCall, dbVars, pipeVars, mergeVars, appVars>>

NextDescription == CallDescription

SpecDescription == InitDescription /\ [][NextDescription]_vars

----------------------------------------------------------------------------
(* Specification SpecOllamaParse: fetchOllamaTagsAndSummary from the       *)
(* response text on, for every text of the model up to MaxTextLen tokens   *)

InitOllamaParse ==
    /\ fnCall \in [fn : {"fetchOllamaTagsAndSummary"},
                   text : SeqsUpTo(SummaryAlphabet, MaxTextLen)]
    /\ fnRet = <<>>
    /\ fnDone = FALSE
    /\ OthersIdle

CallFetchOllamaTagsAndSummary ==
    /\ ~fnDone
    /\ fnCall.fn = "fetchOllamaTagsAndSummary"
    /\ fnRet' = ParseOllamaResponse(CsvTable, fnCall.text)
    /\ fnDone' = TRUE
    /\ UNCHANGED <<fnCall, dbVars, pipeVars, mergeVars, appVars>>

NextOllamaParse == CallFetchOllamaTagsAndSummary

SpecOllamaParse == InitOllamaParse /\ [][NextOllamaParse]_vars

----------------------------------------------------------------------------
(* Specification SpecEnrich: one call of enrichTagsWithCopyrights, for     *)
(* bounded tag lists (names with and without a parenthetical series, raw   *)
(* and normalized), either state of the table, the endpoint set or unset,  *)
(* and every outcome of the lookup.                                        *)

MaxEnrichTags == 2

EnrichNames ==
    { <<"saber">>, <<"fate">>, <<"Fate">>, <<"moon">>,
      <<"saber", "_", "(", "Fate", ")">>,
      <<"rin", "_", "(", "fate", ")">>,
      <<"rin", "_", "(", "moon", ")">> }

EnrichScores == {60, 80}

EnrichTagUniverse ==
    { Tag(n, sc, getCategory(CsvTable, n), "none") : n \in EnrichNames, sc \in EnrichScores }
    \cup { Tag(<<"saber", "_", "(", "Fate", ")">>, 80, "general", "local") }

EnrichLookups ==
    { [ok |-> FALSE, copyrights |-> <<>>] }
    \cup { [ok |-> TRUE, copyrights |-> a] : a \in LookupArrays }

InitEnrich ==
    /\ fnCall \in [fn : {"enrichTagsWithCopyrights"},
                   db : CategoryTables,
                   currentTags : SeqsUpTo(EnrichTagUniverse, MaxEnrichTags),
                   ollamaEndpoint : { <<>>, Endpoint },
                   lookup : EnrichLookups]
    /\ fnRet = <<>>
    /\ fnDone = FALSE
    /\ OthersIdle

CallEnrichTagsWithCopyrights ==
    /\ ~fnDone
    /\ fnCall.fn = "enrichTagsWithCopyrights"
    /\ fnRet' = enrichTagsWithCopyrights(fnCall.db, fnCall.currentTags,
                                         fnCall.ollamaEndpoint, fnCall.lookup)
    /\ fnDone' = TRUE
    /\ UNCHANGED <<fnCall, dbVars, pipeVars, mergeVars, appVars>>

NextEnrich == CallEnrichTagsWithCopyrights

SpecEnrich == InitEnrich /\ [][NextEnrich]_vars

----------------------------------------------------------------------------
(* Specification SpecResults: one evaluation of processedTags, for bounded *)
(* tag lists and every threshold the sliders of the settings panel can set *)

\* <input type="range" min="0" max="0.95" step="0.05">
SliderValues == { 5 * k : k \in 0..19 }

\* updateOverallThreshold(value), then updateThreshold('rating', r)
SliderThresholds ==
    { [general |-> v, character |-> v, copyright |-> v, artist |-> v, meta |-> v,
       rating |-> r] : v \in SliderValues, r \in {0, 80} }

ResultTagUniverse ==
    { Tag(<<"1girl">>, 30, "general", "none"),
      Tag(<<"solo">>, 60, "general", "none"),
      Tag(<<"saber">>, 90, "character", "none"),
      Tag(<<"safe">>, 75, "rating", "none") }

InitResults ==
    /\ fnCall \in [fn : {"processedTags"},
                   tags : SeqsUpTo(ResultTagUniverse, MaxTagsShown),
                   settings : [thresholds : SliderThresholds, topK : {2, 50},
                               randomize : BOOLEAN]]
    /\ fnRet = <<>>
    /\ fnDone = FALSE
    /\ OthersIdle

CallProcessedTags(rnd) ==
    /\ ~fnDone
    /\ fnCall.fn = "processedTags"
    /\ LET r == processedTags([NoArrays EXCEPT !.result = fnCall.tags],
                              fnCall.settings, rnd)
       IN fnRet' = r.heap[r.ref]
    /\ fnDone' = TRUE
    /\ UNCHANGED <<fnCall, dbVars, pipeVars, mergeVars, appVars>>

NextResults == \E rnd \in RandomDraws : CallProcessedTags(rnd)

SpecResults == InitResults /\ [][NextResults]_vars

----------------------------------------------------------------------------
(* Claims about mergeTags, checked under SpecMerge                         *)

MergeLocal == mergeCall.localTags

MergeOllama == mergeCall.ollamaTags

NormNames(tags) == { normalizeTag(tags[i].name) : i \in 1..Len(tags) }

\* the tags of a list that carry normalized name k
WithNorm(tags, k) == { i \in 1..Len(tags) : normalizeTag(tags[i].name) = k }

LastWithNorm(tags, k) ==
    tags[CHOOSE i \in WithNorm(tags, k) : \A j \in WithNorm(tags, k) : j <= i]

DistinctNormNames(tags) ==
    \A i, j \in 1..Len(tags) :
        normalizeTag(tags[i].name) = normalizeTag(tags[j].name) => i = j

\* C1: with local tags present, every merged tag carries the normalized
\* name of some local tag, and a reasoning-model tag whose normalized name
\* matches no local tag is absent from the output whatever its score.
C1_GroundTruthPriority ==
    (mergeDone /\ Len(MergeLocal) > 0) =>
        /\ NormNames(mergeRet) \subseteq NormNames(MergeLocal)
        /\ \A i \in 1..Len(MergeOllama) :
               normalizeTag(MergeOllama[i].name) \notin NormNames(MergeLocal)
                   => WithNorm(mergeRet, normalizeTag(MergeOllama[i].name)) = {}

\* a reasoning-only tag that outscores every local tag has been dropped
C1_Witness ==
    /\ mergeDone
    /\ Len(MergeLocal) > 0
    /\ Len(mergeRet) > 0
    /\ \E i \in 1..Len(MergeOllama) :
           /\ normalizeTag(MergeOllama[i].name) \notin NormNames(MergeLocal)
           /\ \A j \in 1..Len(MergeLocal) :
                  MergeOllama[i].score > MergeLocal[j].score

\* C2 (as claimed): with no local tags, every reasoning-model tag is in the
\* output under its normalized name with its own score and source 'ollama'.
C2_FallbackAsClaimed ==
    (mergeDone /\ Len(MergeLocal) = 0) =>
        \A i \in 1..Len(MergeOllama) :
            \E j \in 1..Len(mergeRet) :
                /\ normalizeTag(mergeRet[j].name) = normalizeTag(MergeOllama[i].name)
                /\ mergeRet[j].score = MergeOllama[i].score
                /\ mergeRet[j].source = "ollama"

\* C3 (as claimed): for each pair of a local and a reasoning-model tag of
\* equal normalized name the output holds exactly one tag of that name, with
\* the maximum of the pair's scores, source 'both', and the local tag's name
\* and category.
C3_ParityAsClaimed ==
    mergeDone =>
        \A i \in 1..Len(MergeLocal) : \A j \in 1..Len(MergeOllama) :
            normalizeTag(MergeLocal[i].name) = normalizeTag(MergeOllama[j].name) =>
                LET k == normalizeTag(MergeLocal[i].name) IN
                /\ Cardinality(WithNorm(mergeRet, k)) = 1
                /\ \A o \in WithNorm(mergeRet, k) :
                       /\ mergeRet[o].score =
                              Max(MergeLocal[i].score, MergeOllama[j].score)
                       /\ mergeRet[o].source = "both"
                       /\ mergeRet[o].name = MergeLocal[i].name
                       /\ mergeRet[o].category = MergeLocal[i].category

\* greatest score among the reasoning-model tags of normalized name k
MaxOllamaScore(k) ==
    CHOOSE s \in { MergeOllama[j].score : j \in WithNorm(MergeOllama, k) } :
        \A j \in WithNorm(MergeOllama, k) : MergeOllama[j].score <= s

\* C3 (amended): for each normalized name carried by a local and by a
\* reasoning-model tag the output holds exactly one tag of that name; its
\* source is 'both', its name and category are those of the last local tag
\* of that name, and its score is the maximum of that local tag's score and
\* the scores of all reasoning-model tags of that name.
C3_ParityBoost ==
    mergeDone =>
        \A k \in NormNames(MergeLocal) \cap NormNames(MergeOllama) :
            /\ Cardinality(WithNorm(mergeRet, k)) = 1
            /\ \A o \in WithNorm(mergeRet, k) :
                   /\ mergeRet[o].source = "both"
                   /\ mergeRet[o].name = LastWithNorm(MergeLocal, k).name
                   /\ mergeRet[o].category = LastWithNorm(MergeLocal, k).category
                   /\ mergeRet[o].score =
                          Max(LastWithNorm(MergeLocal, k).score, MaxOllamaScore(k))

\* a parity match in which the reasoning-model score is the greater one and
\* the raw names differ
C3_Witness ==
    /\ mergeDone
    /\ \E i \in 1..Len(MergeLocal) : \E j \in 1..Len(MergeOllama) :
           /\ normalizeTag(MergeLocal[i].name) = normalizeTag(MergeOllama[j].name)
           /\ MergeLocal[i].name # MergeOllama[j].name
           /\ MergeOllama[j].score > MergeLocal[i].score
           /\ \E o \in 1..Len(mergeRet) :
                  /\ mergeRet[o].source = "both"
                  /\ mergeRet[o].score = MergeOllama[j].score

PromotedToBoth(tags) == [i \in 1..Len(tags) |-> [tags[i] EXCEPT !.source = "both"]]

\* C4 (as claimed): for every list T sorted descending by score,
\* mergeTags(T, T) is T in the same order, each source promoted to 'both'.
C4_SelfMergeAsClaimed ==
    (mergeDone /\ MergeLocal = MergeOllama /\ IsSortedDesc(MergeLocal)) =>
        mergeRet = PromotedToBoth(MergeLocal)

\* C4 (amended): for every list T sorted descending by score in which no two
\* tags share a normalized name, mergeTags(T, T) is T in the same order with
\* the same names, scores and categories, each source being 'both'.
C4_SelfMerge ==
    (/\ mergeDone
     /\ MergeLocal = MergeOllama
     /\ IsSortedDesc(MergeLocal)
     /\ DistinctNormNames(MergeLocal)) =>
        mergeRet = PromotedToBoth(MergeLocal)

\* a self-merge of two tags of different names and different scores
C4_Witness ==
    /\ mergeDone
    /\ MergeLocal = MergeOllama
    /\ Len(MergeLocal) = 2
    /\ MergeLocal[1].score > MergeLocal[2].score
    /\ DistinctNormNames(MergeLocal)
    /\ mergeRet = PromotedToBoth(MergeLocal)

\* C27: a merged tag has source both only if its normalized name occurs
\* among the local tags and among the reasoning-model tags; in particular
\* no tag of mergeTags([], reasoning) has source both.
C27_BothMeansParityAsClaimed ==
    mergeDone =>
        \A i \in 1..Len(mergeRet) :
            mergeRet[i].source = "both" =>
                /\ normalizeTag(mergeRet[i].name) \in NormNames(MergeLocal)
                /\ normalizeTag(mergeRet[i].name) \in NormNames(MergeOllama)

----------------------------------------------------------------------------
(* Claims about the hybrid pipeline, checked under Spec and LiveSpec       *)

CaptionRequests == { i \in 1..Len(requests) : requests[i].kind = "caption" }

StageRank(kind) ==
    CASE kind = "interrogate" -> 1
      [] kind = "copyrights" -> 2
      [] kind = "caption" -> 3

\* C5: the hybrid pipeline never raises to its caller and always ends by
\* returning a result, whichever of the vocabulary load, the local-tagger
\* call, the copyright lookup and the captioning call succeed or fail.
C5_HybridAlwaysReturns ==
    /\ [](outcome # "raised")
    /\ <>(pc = "done" /\ outcome = "returned")

\* the pipeline has returned although the vocabulary load, the local tagger
\* and the captioning call all failed
C5_Witness ==
    /\ pc = "done"
    /\ outcome = "returned"
    /\ failed.local
    /\ failed.consult
    /\ ~isLoaded
    /\ csvInFlight = {}

\* C6 (as claimed): when the local-tagger call fails (a transport failure,
\* the configuration being valid), enrichment produces nothing and the
\* enabled captioning call fails, the result has no tags and an undefined
\* naturalDescription.
C6_AllFailAsClaimed ==
    (/\ pc = "done"
     /\ ~TaggerEndpointMissing(config)
     /\ failed.local
     /\ enrichRet = <<>>
     /\ config.enableNaturalLanguage
     /\ failed.consult) =>
        /\ result.tags = <<>>
        /\ ~result.naturalDescription.defined

\* C7: the stages of one interrogation run strictly one after the other:
\* local tagger settled before enrichment starts, enrichment settled before
\* the captioning call starts, the captioning call is given the list that
\* enrichment returned, merge runs only after captioning settled or was
\* skipped, and at most one stage (one backend request) is in flight.
C7_StageOrdering ==
    /\ Cardinality(inFlight) <= 1
    /\ Cardinality({ st \in DOMAIN stage : stage[st] = "running" }) <= 1
    /\ stage.enrich # "pending" => stage.local = "settled"
    /\ stage.consult # "pending" => stage.enrich = "settled"
    /\ stage.merge # "pending" => stage.consult \in {"settled", "skipped"}
    /\ \A i \in CaptionRequests : requests[i].existingTags = enrichRet
    /\ \A i, j \in 1..Len(requests) :
           i < j => StageRank(requests[i].kind) < StageRank(requests[j].kind)

\* all three backend calls were made and the captioning call was grounded
\* on a list holding a copyright tag that enrichment added
C7_Witness ==
    /\ pc = "done"
    /\ Len(requests) = 3
    /\ \E i \in CaptionRequests :
           /\ Len(requests[i].existingTags) > Len(LocalItemsToTags(tagDatabase,
                  << Item(<<"saber">>, 80), Item(<<"artoria", "_", "(", "Fate", ")">>, 9000) >>))
           /\ \E k \in 1..Len(requests[i].existingTags) :
                  requests[i].existingTags[k].category = "copyright"

\* C8: with natural-language output disabled the captioning call is never
\* issued, and the result is the enriched local tag list (sources set to
\* 'local') with naturalDescription undefined.
C8_ConsultSkipped ==
    ~config.enableNaturalLanguage =>
        /\ CaptionRequests = {}
        /\ "caption" \notin inFlight
        /\ pc = "done" =>
               /\ ~result.naturalDescription.defined
               /\ NormNames(enrichRet) \subseteq NormNames(result.tags)
               /\ \A j \in 1..Len(result.tags) :
                      \E i \in 1..Len(enrichRet) :
                          result.tags[j] = [enrichRet[i] EXCEPT !.source = "local"]

\* natural language disabled, a reasoning endpoint configured, and a result
\* of local tags with an enrichment-derived copyright tag among them
C8_Witness ==
    /\ pc = "done"
    /\ ~config.enableNaturalLanguage
    /\ config.ollamaEndpoint # <<>>
    /\ Len(result.tags) >= 3
    /\ \E j \in 1..Len(result.tags) : result.tags[j].category = "copyright"

\* C9: the percentages passed to onProgress never decrease, whichever
\* stages fail or are skipped.
C9_ProgressMonotone ==
    \A i, j \in 1..Len(progress) : i < j => progress[i] <= progress[j]

\* a finished run with a failed local tagger and a skipped captioning stage
C9_Witness ==
    /\ pc = "done"
    /\ failed.local
    /\ stage.consult = "skipped"
    /\ Len(progress) = 5

\* C10 (as claimed): with an empty or blank tagger endpoint the pipeline
\* issues no backend request and ends by raising a configuration error to
\* its caller.
C10_FailFastAsClaimed ==
    TaggerEndpointMissing(config) =>
        /\ requests = <<>>
        /\ pc = "done" => outcome = "raised"

----------------------------------------------------------------------------
(* Claims about the vocabulary service, checked under Spec                 *)

\* C12 (as claimed): at most one fetch of the reference table is in flight
\* at any time, and once a load has succeeded no step starts a fetch or
\* changes the table.
C12_SingleFlightAsClaimed ==
    /\ [](Cardinality(csvInFlight) <= 1)
    /\ [][isLoaded => (csvInFlight' \subseteq csvInFlight /\ tagDatabase' = tagDatabase)]_vars

\* names asked of getCategory: table keys, heuristic words, others
CategoryProbes ==
    CsvNames \cup RatingWords \cup MetaWords \cup CountWords
        \cup { <<>>, <<"rating:", "safe">>, <<"cat">> }

C14_GetCategoryTotalOrdered ==
    (fnDone /\ fnCall.fn = "getCategory") =>
        LET db == fnCall.db
            n == fnCall.tagName
            isRating == (n # <<>> /\ Head(n) = "rating:") \/ n \in RatingWords
        IN /\ fnRet \in Categories
           /\ n \in DOMAIN db => fnRet = db[n]
           /\ (n \notin DOMAIN db /\ isRating) => fnRet = "rating"
           /\ (n \notin DOMAIN db /\ ~isRating /\ n \in MetaWords) => fnRet = "meta"
           /\ (n \notin DOMAIN db /\ ~isRating /\ n \notin MetaWords) => fnRet = "general"

\* the name 'highres' is a key of the loaded table with category 'general',
\* where the meta heuristic would have said 'meta'
C14_Witness ==
    /\ fnDone
    /\ fnCall.fn = "getCategory"
    /\ fnCall.tagName = <<"highres">>
    /\ fnCall.db = CsvTable
    /\ CategoryHeuristic(fnCall.tagName) = "meta"
    /\ fnRet = "general"

----------------------------------------------------------------------------
(* Claims about fetchLocalTags, checked under SpecLocalTags                *)

LocalCallDone == fnDone /\ fnCall.fn = "fetchLocalTags"

\* the items of the body with a given name
ItemsNamed(n) ==
    { i \in 1..Len(fnCall.body.items) : fnCall.body.items[i].name = n }

\* C15 (as claimed): every tag fetchLocalTags returns has the score s/100
\* if the tagger's score s for that name is above 1, and s otherwise, and
\* that score lies in [0, 1].
C15_ScoreNormalizationAsClaimed ==
    LocalCallDone =>
        \A j \in 1..Len(fnRet) :
            /\ \E i \in ItemsNamed(fnRet[j].name) :
                   LET sc == fnCall.body.items[i].score IN
                   fnRet[j].score = IF sc > 100 THEN sc \div 100 ELSE sc
            /\ fnRet[j].score >= 0
            /\ fnRet[j].score <= 100

\* the tags fetchLocalTags built before the hallucination filter that the
\* filter may not remove: any name but the two skin-colour names, and those
\* two names with a score of 0.85 or more
MustBeRetained ==
    LET pre == LocalTagsOf(fnCall.db, fnCall.body) IN
    { pre[i] : i \in { k \in 1..Len(pre) :
                         \/ pre[k].name \notin { <<"blue", "_", "skin">>,
                                                  <<"colored", "_", "skin">> }
                         \/ (pre[k].score # NaN /\ pre[k].score >= 85) } }

C17_ShapeEquivalenceAsClaimed ==
    LocalCallDone =>
        \A layout \in LocalLayouts :
            LocalTagsReturned(fnCall.db,
                LocalBody(layout.wrapped, layout.shape, layout.nameField,
                          layout.scoreField, fnCall.body.items),
                fnCall.maxTags) = fnRet

----------------------------------------------------------------------------
(* Claims about the captioning call, checked under Spec                    *)

\* C18: when fetchOllamaTagsAndSummary has no endpoint, or its request
\* fails in transport, answers with a body that is not JSON or with JSON
\* that has no response string, it returns exactly {tags: [], summary: ""}
\* and nothing is raised to the orchestrator or beyond.
C18_OllamaBestEffort ==
    /\ outcome # "raised"
    /\ (stage.consult = "settled" /\ (config.ollamaEndpoint = <<>> \/ failed.consult)) =>
           /\ ollamaData = [tags |-> <<>>, summary |-> [defined |-> TRUE, text |-> <<>>]]
           /\ pc = "done" =>
                  result.naturalDescription = [defined |-> TRUE, text |-> <<>>]

\* the captioning request failed and the pipeline still returned the local
\* tags, with the empty description
C18_Witness ==
    /\ pc = "done"
    /\ outcome = "returned"
    /\ config.ollamaEndpoint # <<>>
    /\ failed.consult
    /\ ~failed.local
    /\ Len(result.tags) > 0
    /\ result.naturalDescription = [defined |-> TRUE, text |-> <<>>]

----------------------------------------------------------------------------
(* Claims about the descriptions, checked under SpecDescription            *)

\* the characters of a text, in order
RECURSIVE CharsOf(_)
CharsOf(text) ==
    IF text = <<>> THEN <<>> ELSE TokenChars(Head(text)) \o CharsOf(Tail(text))

\* sub can be had from full by leaving characters out
RECURSIVE IsSubsequence(_, _)
IsSubsequence(sub, full) ==
    IF sub = <<>> THEN TRUE
    ELSE IF full = <<>> THEN FALSE
    ELSE IF Head(sub) = Head(full) THEN IsSubsequence(Tail(sub), Tail(full))
    ELSE IsSubsequence(sub, Tail(full))

\* C19: every description handed back (the hybrid naturalDescription on
\* each parse path, the strings of generateCaption and of
\* fetchOllamaDescription) consists of letters, digits, whitespace and the
\* characters , . < > ? ! @ ( ) only, and its characters are characters
\* of the model's text in their original order.
C19_DescriptionsSanitized ==
    (fnDone /\ fnCall.fn \in { "fetchOllamaTagsAndSummary", "generateCaption",
                               "generateCaptionGemini", "fetchOllamaDescription" }) =>
        /\ \A i \in 1..Len(fnRet) :
               fnRet[i] \in { "a", "Tags", "Summary", "think", "Sure", "here", "is",
                              " ", "\n",
                              ",", ".", "<", ">", "?", "!", "@", "(", ")" }
        /\ IsSubsequence(fnRet, CharsOf(fnCall.text))

\* a hybrid response with the Tags marker only: the description is the text
\* before the marker, with its hyphen removed
C19_Witness ==
    /\ fnDone
    /\ fnCall.fn = "fetchOllamaTagsAndSummary"
    /\ fnCall.text = <<"a", "-", "Tags:", "a">>
    /\ TagsMatch(fnCall.text).found
    /\ ~SummaryMatch(fnCall.text).found
    /\ fnRet = <<"a">>

----------------------------------------------------------------------------
(* Claims about the parsing of the model's text, checked under             *)
(* SpecOllamaParse                                                         *)

\* the index of the first "Tags:" marker and of the first "Summary:" marker
\* after it; 0 when there is none
TagsMarker == FirstIndexOf(fnCall.text, "tags:", 1)

SummaryMarker ==
    IF TagsMarker = 0 THEN 0 ELSE FirstIndexOf(fnCall.text, "summary:", TagsMarker + 1)

TagNamesOf(tags) == [i \in 1..Len(tags) |-> tags[i].name]

\* C21: for every response with a "Tags:" marker followed later by a
\* "Summary:" marker, on separate lines or on one line, the tag list is the
\* comma-separated text strictly between the markers, the description is
\* the text after "Summary:", and no tag name contains the Summary section.
C21_MarkersAsClaimed ==
    (fnDone /\ fnCall.fn = "fetchOllamaTagsAndSummary"
        /\ TagsMarker > 0 /\ SummaryMarker > 0
        /\ FirstIndexOf(fnCall.text, "summary:", 1) = SummaryMarker) =>
        LET between == SubSeq(fnCall.text, TagsMarker + 1, SummaryMarker - 1)
            after == SubSeq(fnCall.text, SummaryMarker + 1, Len(fnCall.text))
            pieces == SplitComma(<<>>, trim(between))
        IN /\ TagNamesOf(fnRet.tags) = [i \in 1..Len(pieces) |-> trim(pieces[i])]
           /\ fnRet.summary.text = sanitizeDescription(trim(after))
           /\ \A i \in 1..Len(fnRet.tags) :
                  \A k \in 1..Len(fnRet.tags[i].name) :
                      ToLowerToken(fnRet.tags[i].name[k]) # "summary:"

----------------------------------------------------------------------------
(* Claims about enrichTagsWithCopyrights, checked under SpecEnrich and,    *)
(* for the requests, under Spec                                            *)

EnrichDone == fnDone /\ fnCall.fn = "enrichTagsWithCopyrights"

EnrichIn == fnCall.currentTags

\* the name ends in a parenthetical series: name_(series)
HasSeriesSuffix(name) ==
    /\ Len(name) >= 2
    /\ name[Len(name)] = ")"
    /\ \E k \in 1..(Len(name) - 1) : name[k] = "("

\* the normalized series of such a name
SeriesToken(name) ==
    LET k == CHOOSE x \in 1..(Len(name) - 1) :
                 /\ name[x] = "("
                 /\ \A y \in (x + 1)..(Len(name) - 1) : name[y] # "("
    IN normalizeTag(SubSeq(name, k + 1, Len(name) - 1))

KnownCopyright(name) ==
    name \in DOMAIN fnCall.db /\ fnCall.db[name] = "copyright"

CountNamed(tags, n) == Cardinality({ i \in 1..Len(tags) : tags[i].name = n })

\* C22: for every input tag name_(series) whose normalized series is a
\* known copyright tag, the output has a tag of that name with category
\* copyright and the originating tag's score and source, unless a tag of
\* that name was already present (in the input, or added for an earlier
\* tag), and then nothing is added for it.
C22_BracketEnrichment ==
    EnrichDone =>
        \A i \in 1..Len(EnrichIn) :
            (HasSeriesSuffix(EnrichIn[i].name)
                /\ KnownCopyright(SeriesToken(EnrichIn[i].name))) =>
                LET series == SeriesToken(EnrichIn[i].name)
                    inInput == \E j \in 1..Len(EnrichIn) : EnrichIn[j].name = series
                    addedEarlier ==
                        \E j \in 1..(i - 1) :
                            /\ HasSeriesSuffix(EnrichIn[j].name)
                            /\ SeriesToken(EnrichIn[j].name) = series
                IN /\ CountNamed(fnRet.tags, series) =
                          CountNamed(EnrichIn, series) + (IF inInput THEN 0 ELSE 1)
                   /\ ~(inInput \/ addedEarlier) =>
                          \E k \in 1..Len(fnRet.tags) :
                              fnRet.tags[k] = Tag(series, EnrichIn[i].score, "copyright",
                                                  EnrichIn[i].source)

\* two tags of one known series, the second with the higher score and a
\* source: the series is added once, for the first
C22_Witness ==
    /\ EnrichDone
    /\ fnCall.db = CsvTable
    /\ EnrichIn = << Tag(<<"rin", "_", "(", "fate", ")">>, 60, "general", "none"),
                     Tag(<<"saber", "_", "(", "Fate", ")">>, 80, "general", "local") >>
    /\ CountNamed(fnRet.tags, <<"fate">>) = 1
    /\ \E k \in 1..Len(fnRet.tags) :
           fnRet.tags[k] = Tag(<<"fate">>, 60, "copyright", "none")

\* the condition the text gives for queueing a tag
QueuedAsClaimed(tag) ==
    \/ HasSeriesSuffix(tag.name) /\ ~KnownCopyright(SeriesToken(tag.name))
    \/ (\A k \in 1..Len(tag.name) : tag.name[k] \notin {"(", ")"})
           /\ tag.category = "character"

\* C23: a tag's full name is queued for the lookup exactly when its
\* parenthetical token is present but not a known copyright tag, or it has
\* no parenthesis and its category is character.
C23_QueueingAsClaimed ==
    EnrichDone =>
        fnRet.queue = TagNamesOf(SelectSeq(EnrichIn, QueuedAsClaimed))

\* C25: given an input in which no two tags share a normalized name, the
\* output has no two tags with the same normalized name.
C25_NoDuplicatesAsClaimed ==
    (EnrichDone /\ DistinctNormNames(EnrichIn)) => DistinctNormNames(fnRet.tags)

\* the copyright requests issued so far
LookupRequests == { i \in 1..Len(requests) : requests[i].kind = "copyrights" }

\* C24: one call of enrichTagsWithCopyrights issues at most one copyright
\* request, carrying all queued names together; it issues none when the
\* queue is empty or the reasoning endpoint is unset.
C24_BatchedLookup ==
    /\ Cardinality(LookupRequests) <= 1
    /\ \A i \in LookupRequests :
           /\ requests[i].characters # <<>>
           /\ config.ollamaEndpoint # <<>>
    /\ pc = "await_lookup" =>
           /\ LookupRequests # {}
           /\ \A i \in LookupRequests : requests[i].characters = enrichLocals.queue

\* two names are queued and travel in the one request
C24_Witness ==
    /\ pc = "await_lookup"
    /\ Len(enrichLocals.queue) = 2
    /\ Cardinality(LookupRequests) = 1
    /\ \A i \in LookupRequests : Len(requests[i].characters) = 2

\* the names of the tags the copyright lookup added during enrichment: in
\* the list enrichTagsWithCopyrights returned they alone have source ollama
LookupDerived ==
    { enrichRet[i].name : i \in { k \in 1..Len(enrichRet) : enrichRet[k].source = "ollama" } }

\* C28: a copyright tag that entered the tag list only through the lookup
\* is reported in the final hybrid result with source ollama or both, never
\* local.
C28_ProvenanceAsClaimed ==
    outcome = "returned" =>
        \A i \in 1..Len(result.tags) :
            result.tags[i].name \in LookupDerived =>
                result.tags[i].source \in {"ollama", "both"}

\* C30: every tag in the result of the hybrid pipeline has a non-empty
\* name, whatever the reasoning model and the local tagger answer.
C30_NoEmptyNameAsClaimed ==
    outcome = "returned" =>
        \A i \in 1..Len(result.tags) : result.tags[i].name # <<>>

----------------------------------------------------------------------------
(* Claims about the tags shown, checked under SpecResults                  *)

\* C26: for every threshold the settings panel can set (0 to 0.95 in steps
\* of 0.05), the tag list shown is exactly the tags of the result whose
\* score is at least their category's threshold, ordered by descending
\* score and cut to the top K.
C26_ThresholdsAsClaimed ==
    (fnDone /\ fnCall.fn = "processedTags" /\ ~fnCall.settings.randomize) =>
        LET AtLeast(tag) == tag.score >= fnCall.settings.thresholds[tag.category]
            kept == SortByScoreDesc(SelectSeq(fnCall.tags, AtLeast))
            topK == fnCall.settings.topK
        IN fnRet = SubSeq(kept, 1, IF topK < Len(kept) THEN topK ELSE Len(kept))

----------------------------------------------------------------------------
(* Claims about the cloud path and the App, checked under SpecApp          *)

\* C11 (as claimed): whatever fails in a cloud interrogation (missing key,
\* transport failure, empty response, unparsable response), generateTags
\* raises to handleInterrogate and the App ends in ERROR, never in SUCCESS.
C11_CloudStrictAsClaimed ==
    (pc = "idle" /\ cloudFailure # "none") =>
        /\ outcome = "raised"
        /\ appState # "SUCCESS"

\* the tags array the App stored with setResult: the list generateTags
\* returned once the interrogation succeeded, the empty list before
StoredTags == IF appState = "SUCCESS" THEN result.tags ELSE <<>>

\* C20: computing the displayed list (threshold filter, sort, top-K cut,
\* shuffle) leaves the stored result.tags with the same Tag values in the
\* same order: no render step changes the stored array, which stays the
\* list that setResult stored.
C20_ViewNeverMutatesResult ==
    appResult.set => arrays.result = StoredTags

\* a rendered view, shuffled and cut to the top 2, that differs from the
\* stored list of three tags, which is not sorted by score
C20_Witness ==
    /\ appState = "SUCCESS"
    /\ appResult.set
    /\ shown = "sliced"
    /\ settings.randomize
    /\ Len(arrays.result) = 3
    /\ ~IsSortedDesc(arrays.result)
    /\ Len(arrays.sliced) = 2
    /\ arrays.sliced[1].score < arrays.sliced[2].score
    /\ arrays.filtered # arrays.result

\* C29: when the user selects a new image or clears the selection while a
\* request for the previous image is in flight, its later completion never
\* sets the displayed result or the app state: whenever a result is shown
\* as the outcome of an interrogation, it was computed from the image that
\* is selected.
C29_NoStaleResultAsClaimed ==
    appState = "SUCCESS" => interrogated = selectedFile

=============================================================================
